---- MODULE Spec2Model ----
(***************************************************************************)
(* A model of the subtitle translation pipeline: the batch translation     *)
(* engine (translator.py), the context store and term extractor            *)
(* (context_manager.py) and the prompt builder's term injection            *)
(* (prompts.py).                                                           *)
(*                                                                         *)
(* Python strings are sequences of one-character strings, so that strip,   *)
(* split, startswith and the regular expressions are computed as the code  *)
(* computes them.  A non-ASCII character is written by its code point name *)
(* ("U4E2D").  A Python dict is a function whose DOMAIN is the key set.    *)
(***************************************************************************)
EXTENDS Integers, Sequences, FiniteSets, TLC

\* ------------------------------------------------------------------------
\* Characters and strings
\* ------------------------------------------------------------------------

NL == "\n"

Upper ==
    {"A", "B", "C", "D", "E", "F", "G", "H", "I", "J", "K", "L", "M",
     "N", "O", "P", "Q", "R", "S", "T", "U", "V", "W", "X", "Y", "Z"}

Lower ==
    {"a", "b", "c", "d", "e", "f", "g", "h", "i", "j", "k", "l", "m",
     "n", "o", "p", "q", "r", "s", "t", "u", "v", "w", "x", "y", "z"}

AsciiLetter == Upper \cup Lower

Digit == {"0", "1", "2", "3", "4", "5", "6", "7", "8", "9"}

Whitespace == {" ", NL, "\r"}

\* characters of the ranges of asian_pattern (CJK ideographs, kana, Hangul)
AsianChar == {"U4E2D", "U6587", "U30A2", "UAC00"}

\* non-ASCII letters outside those ranges, and non-ASCII punctuation
OtherLetter == {"U00E9", "U00F1"}
NonAsciiPunct == {"U2014", "U3002"}

NonAscii == AsianChar \cup OtherLetter \cup NonAsciiPunct

\* \w of a Python 3 str pattern: letters of any script, digits, underscore
WordChar == AsciiLetter \cup Digit \cup {"_"} \cup AsianChar \cup OtherLetter

\* code point order of the characters the model uses
CharOrder ==
    <<NL, "\r", " ", ")", ",", "-", ".",
      "0", "1", "2", "3", "4", "5", "6", "7", "8", "9", ":", ">",
      "A", "B", "C", "D", "E", "F", "G", "H", "I", "J", "K", "L", "M",
      "N", "O", "P", "Q", "R", "S", "T", "U", "V", "W", "X", "Y", "Z", "_",
      "a", "b", "c", "d", "e", "f", "g", "h", "i", "j", "k", "l", "m",
      "n", "o", "p", "q", "r", "s", "t", "u", "v", "w", "x", "y", "z",
      "U00E9", "U00F1", "U2014", "U3002", "U30A2", "U4E2D", "U6587", "UAC00">>

Ord(c) == CHOOSE k \in 1..Len(CharOrder) : CharOrder[k] = c

RECURSIVE StrLess(_, _)
StrLess(a, b) ==
    IF b = <<>> THEN FALSE
    ELSE IF a = <<>> THEN TRUE
    ELSE IF Head(a) = Head(b) THEN StrLess(Tail(a), Tail(b))
    ELSE Ord(Head(a)) < Ord(Head(b))

RECURSIVE Sorted(_)
Sorted(S) ==
    IF S = {} THEN <<>>
    ELSE LET m == CHOOSE x \in S : \A y \in S \ {x} : StrLess(x, y)
         IN  <<m>> \o Sorted(S \ {m})

RECURSIVE LStrip(_)
LStrip(s) == IF s # <<>> /\ Head(s) \in Whitespace THEN LStrip(Tail(s)) ELSE s

RECURSIVE RStrip(_)
RStrip(s) ==
    IF s # <<>> /\ s[Len(s)] \in Whitespace
    THEN RStrip(SubSeq(s, 1, Len(s) - 1))
    ELSE s

Strip(s) == RStrip(LStrip(s))

StartsWith(s, p) == Len(p) <= Len(s) /\ SubSeq(s, 1, Len(p)) = p

Contains(text, term) ==
    \E p \in 1..(Len(text) - Len(term) + 1) :
        SubSeq(text, p, p + Len(term) - 1) = term

Range(f) == {f[x] : x \in DOMAIN f}

RECURSIVE Concat(_)
Concat(ss) == IF ss = <<>> THEN <<>> ELSE Head(ss) \o Concat(Tail(ss))

Min(a, b) == IF a <= b THEN a ELSE b

\* ------------------------------------------------------------------------
\* Regular expressions of context_manager.py
\* ------------------------------------------------------------------------

IsWordAt(s, k) == k \in 1..Len(s) /\ s[k] \in WordChar

\* \b between s[p-1] and s[p]
WordBoundary(s, p) == IsWordAt(s, p - 1) # IsWordAt(s, p)

\* exclusive end of the maximal run of characters of class C starting at p
RunEnd(s, p, C) ==
    CHOOSE q \in p..(Len(s) + 1) :
        /\ \A r \in p..(q - 1) : s[r] \in C
        /\ q = Len(s) + 1 \/ s[q] \notin C

\* one more iteration of (?:\s+[A-Z][a-zA-Z]*) from e: its exclusive end, or 0
GroupEnd(s, e) ==
    LET w == RunEnd(s, e, Whitespace)
    IN  IF w > e /\ w <= Len(s) /\ s[w] \in Upper
        THEN RunEnd(s, w + 1, AsciiLetter)
        ELSE 0

\* greedy iterations of the group from e, backtracking until \b holds: end or 0
RECURSIVE GroupsEnd(_, _)
GroupsEnd(s, e) ==
    LET nx   == GroupEnd(s, e)
        more == IF nx = 0 THEN 0 ELSE GroupsEnd(s, nx)
    IN  IF more # 0 THEN more
        ELSE IF WordBoundary(s, e) THEN e
        ELSE 0

\* match of \b[A-Z][a-zA-Z]{1,}(?:\s+[A-Z][a-zA-Z]*)*\b (multi) or of
\* \b[A-Z][a-zA-Z]{1,}\b at position p: exclusive end, or 0 for no match
CapMatchEnd(s, p, multi) ==
    IF ~(WordBoundary(s, p) /\ s[p] \in Upper) THEN 0
    ELSE LET e == RunEnd(s, p + 1, AsciiLetter)
         IN  IF e < p + 2 THEN 0
             ELSE IF multi THEN GroupsEnd(s, e)
             ELSE IF WordBoundary(s, e) THEN e
             ELSE 0

\* re.findall of the pattern: the non-overlapping matches, left to right
RECURSIVE FindCap(_, _, _)
FindCap(s, p, multi) ==
    IF p > Len(s) THEN <<>>
    ELSE LET e == CapMatchEnd(s, p, multi)
         IN  IF e = 0 THEN FindCap(s, p + 1, multi)
             ELSE <<SubSeq(s, p, e - 1)>> \o FindCap(s, e, multi)

\* re.findall of [C]+ : the maximal runs of characters of class C
RECURSIVE FindRuns(_, _, _)
FindRuns(s, p, C) ==
    IF p > Len(s) THEN <<>>
    ELSE LET e == RunEnd(s, p, C)
         IN  IF e = p THEN FindRuns(s, p + 1, C)
             ELSE <<SubSeq(s, p, e - 1)>> \o FindRuns(s, e, C)

\* ------------------------------------------------------------------------
\* Term extractor (context_manager.py)
\* ------------------------------------------------------------------------

common_words ==
    {<<"I">>, <<"T","h","e">>, <<"T","h","i","s">>, <<"T","h","a","t">>,
     <<"T","h","e","s","e">>, <<"T","h","o","s","e">>, <<"W","h","a","t">>,
     <<"W","h","e","r","e">>, <<"W","h","e","n">>, <<"W","h","o">>, <<"W","h","y">>,
     <<"H","o","w">>, <<"Y","e","s">>, <<"N","o">>, <<"O","k">>, <<"O","k","a","y">>,
     <<"W","e","l","l">>, <<"S","o">>, <<"B","u","t">>, <<"A","n","d">>, <<"O","r">>,
     <<"I","f">>, <<"T","h","e","n">>, <<"N","o","w">>, <<"H","e","r","e">>,
     <<"T","h","e","r","e">>, <<"C","o","m","e">>, <<"G","o">>, <<"G","e","t">>,
     <<"T","a","k","e">>, <<"G","i","v","e">>, <<"M","a","k","e">>, <<"L","e","t">>,
     <<"S","e","e">>, <<"L","o","o","k">>, <<"G","o","o","d">>, <<"B","a","d">>}

is_common_word(word) == word \in common_words

\* ^[A-Z][a-z]+ matched at position p: exclusive end, or 0
SimpleNameEnd(w, p) ==
    IF p <= Len(w) /\ w[p] \in Upper
    THEN LET e == RunEnd(w, p + 1, Lower) IN IF e >= p + 2 THEN e ELSE 0
    ELSE 0

is_likely_proper_noun(word) ==
    LET e1 == SimpleNameEnd(word, 1)
        w2 == IF e1 = 0 THEN 0 ELSE RunEnd(word, e1, Whitespace)
        e2 == IF e1 # 0 /\ w2 > e1 THEN SimpleNameEnd(word, w2) ELSE 0
        capital_count == Cardinality({k \in 1..Len(word) : word[k] \in Upper})
    IN  \/ e1 = Len(word) + 1
        \/ e2 = Len(word) + 1
        \/ StartsWith(word, <<"D","r",".">>)
        \/ StartsWith(word, <<"M","r",".">>)
        \/ StartsWith(word, <<"M","r","s",".">>)
        \/ StartsWith(word, <<"M","s",".">>)
        \/ (capital_count >= 2 /\ Len(word) >= 4)

\* extract_potential_terms as if a text counted for a term only when the
\* pattern found the term in it, instead of "term in text"
extract_potential_terms_counting_matches(texts) ==
    LET found(k) == {Strip(word) : word \in
                        {w \in Range(FindCap(texts[k], 1, TRUE)) :
                             Len(w) >= 2 /\ ~is_common_word(w)}}
        potential_terms == UNION {found(k) : k \in 1..Len(texts)}
        term_counter(term) ==
            Cardinality({k \in 1..Len(texts) : term \in found(k)})
        important_terms ==
            {term \in potential_terms :
                 term_counter(term) > 1 \/ is_likely_proper_noun(term)}
    IN  Sorted(important_terms)

extract_potential_terms(texts) ==
    LET potential_terms ==
            UNION {{Strip(word) : word \in
                       {w \in Range(FindCap(texts[k], 1, TRUE)) :
                            Len(w) >= 2 /\ ~is_common_word(w)}} :
                   k \in 1..Len(texts)}
        term_counter(term) ==
            Cardinality({k \in 1..Len(texts) : Contains(texts[k], term)})
        important_terms ==
            {term \in potential_terms :
                 /\ term_counter(term) >= 1
                 /\ term_counter(term) > 1 \/ is_likely_proper_noun(term)}
    IN  Sorted(important_terms)

\* the candidates as a set: list(set(candidates)) keeps each once, and the order
\* in which a set of str is listed is not fixed by the code
extract_translated_candidates(translated_text) ==
    Range(FindRuns(translated_text, 1, AsianChar))
        \cup Range(FindRuns(translated_text, 1, NonAscii))
        \cup Range(FindCap(translated_text, 1, FALSE))

MaxCandidateLen == 20

is_valid_translation_candidate(candidate) ==
    /\ Len(candidate) >= 1
    /\ Len(candidate) <= MaxCandidateLen
    /\ \E k \in 1..Len(candidate) : candidate[k] \in WordChar

\* no candidate of a translated text is valid
NoCandidate == <<>>

\* what the loop over list(set(candidates)) can pick for one translated text:
\* whichever valid candidate the listing puts first
FirstValidChoices(translated_text) ==
    LET valid == {c \in extract_translated_candidates(translated_text) :
                      is_valid_translation_candidate(c)}
    IN  IF valid = {} THEN {NoCandidate} ELSE valid

FirstContaining(original_texts, term) ==
    CHOOSE k \in 1..Len(original_texts) :
        /\ Contains(original_texts[k], term)
        /\ \A m \in 1..(k - 1) : ~Contains(original_texts[m], term)

\* every mapping extract_terms_from_translation_pair can return
extract_terms_from_translation_pair(original_texts, translated_texts) ==
    IF Len(original_texts) # Len(translated_texts) THEN {<<>>}
    ELSE
    LET potential_terms == Range(extract_potential_terms(original_texts))
        aligned(term) == translated_texts[FirstContaining(original_texts, term)]
        used    == {aligned(term) : term \in potential_terms}
        options == UNION {FirstValidChoices(t) : t \in used}
        picks   == {f \in [used -> options] : \A t \in used : f[t] \in FirstValidChoices(t)}
    IN  {[term \in {t \in potential_terms : f[aligned(t)] # NoCandidate}
             |-> f[aligned(term)]] : f \in picks}

\* ------------------------------------------------------------------------
\* Context store (context_manager.py, class ContextManager)
\* ------------------------------------------------------------------------

EmptyDict == <<>>

Get(d, key, default) == IF key \in DOMAIN d THEN d[key] ELSE default

\* ContextManager.__init__
NewContextManager ==
    [established_terms |-> EmptyDict,
     term_confidence   |-> EmptyDict,
     batch_history     |-> <<>>]

\* update_terms as if "established_terms[original] = translation" ran for a seen
\* term too
update_terms_overwriting(cm, new_terms) ==
    [established_terms |-> new_terms @@ cm.established_terms,
     term_confidence |->
         [original \in DOMAIN cm.term_confidence \cup DOMAIN new_terms |->
             IF original \in DOMAIN new_terms
             THEN Get(cm.term_confidence, original, 0) + 1
             ELSE cm.term_confidence[original]],
     batch_history |->
         IF DOMAIN new_terms # {}
         THEN Append(cm.batch_history, new_terms)
         ELSE cm.batch_history]

\* update_terms as if the snapshot were appended without the "if new_terms" test
update_terms_always_logging(cm, new_terms) ==
    LET seen(original) == original \in DOMAIN cm.established_terms
    IN  [established_terms |->
             [original \in DOMAIN cm.established_terms \cup DOMAIN new_terms |->
                 IF seen(original) THEN cm.established_terms[original]
                 ELSE new_terms[original]],
         term_confidence |->
             [original \in DOMAIN cm.term_confidence \cup DOMAIN new_terms |->
                 IF original \in DOMAIN new_terms
                 THEN IF seen(original)
                      THEN Get(cm.term_confidence, original, 0) + 1
                      ELSE 1
                 ELSE cm.term_confidence[original]],
         batch_history |-> Append(cm.batch_history, new_terms)]

update_terms(cm, new_terms) ==
    LET seen(original) == original \in DOMAIN cm.established_terms
    IN  [established_terms |->
             [original \in DOMAIN cm.established_terms \cup DOMAIN new_terms |->
                 IF seen(original) THEN cm.established_terms[original]
                 ELSE new_terms[original]],
         term_confidence |->
             [original \in DOMAIN cm.term_confidence \cup DOMAIN new_terms |->
                 IF original \in DOMAIN new_terms
                 THEN IF seen(original)
                      THEN Get(cm.term_confidence, original, 0) + 1
                      ELSE 1
                 ELSE cm.term_confidence[original]],
         batch_history |->
             IF DOMAIN new_terms # {}
             THEN Append(cm.batch_history, new_terms)
             ELSE cm.batch_history]

\* get_established_terms as if the test were "> min_confidence"
get_established_terms_above(cm, min_confidence) ==
    [original \in {o \in DOMAIN cm.established_terms :
                       Get(cm.term_confidence, o, 0) > min_confidence}
        |-> cm.established_terms[original]]

get_established_terms(cm, min_confidence) ==
    [original \in {o \in DOMAIN cm.established_terms :
                       Get(cm.term_confidence, o, 0) >= min_confidence}
        |-> cm.established_terms[original]]

DefaultMinConfidence == 1

get_context_summary(cm) ==
    [total_terms           |-> Cardinality(DOMAIN cm.established_terms),
     high_confidence_terms |-> Cardinality(DOMAIN get_established_terms(cm, 2)),
     batches_processed     |-> Len(cm.batch_history),
     established_terms     |-> cm.established_terms]

\* reset_context as if term_confidence were not cleared
reset_context_keeping_confidence(cm) ==
    [established_terms |-> EmptyDict,
     term_confidence   |-> cm.term_confidence,
     batch_history     |-> <<>>]

reset_context(cm) ==
    [established_terms |-> EmptyDict,
     term_confidence   |-> EmptyDict,
     batch_history     |-> <<>>]

\* ------------------------------------------------------------------------
\* Reply parsing (translator.py, _parse_batch_response)
\* ------------------------------------------------------------------------

DigitChars == <<"0", "1", "2", "3", "4", "5", "6", "7", "8", "9">>

\* f"{i}"
RECURSIVE Dec(_)
Dec(n) ==
    IF n < 10 THEN <<DigitChars[n + 1]>>
    ELSE Dec(n \div 10) \o <<DigitChars[(n % 10) + 1]>>

FirstIndex(s, c) == CHOOSE k \in 1..Len(s) : s[k] = c /\ \A m \in 1..(k - 1) : s[m] # c

\* s.split(c)
RECURSIVE Split(_, _)
Split(s, c) ==
    IF c \notin Range(s) THEN <<s>>
    ELSE LET k == FirstIndex(s, c)
         IN  <<SubSeq(s, 1, k - 1)>> \o Split(SubSeq(s, k + 1, Len(s)), c)

\* line.split(c, 1)[1].strip()
AfterFirst(line, c) == Strip(SubSeq(line, FirstIndex(line, c) + 1, Len(line)))

\* line.startswith(f"{i}.") or line.startswith(f"{i})")
HasMarker(line, i) ==
    StartsWith(line, Dec(i) \o <<".">>) \/ StartsWith(line, Dec(i) \o <<")">>)

\* the translation part of a line that carries a marker
MarkedTranslation(line) ==
    IF "." \in Range(line) THEN AfterFirst(line, ".") ELSE AfterFirst(line, ")")

NotFoundText(i) ==
    <<"T","r","a","n","s","l","a","t","i","o","n"," ">> \o Dec(i) \o <<" ","n","o","t"," ","f","o","u","n","d">>

MissingText(n) ==
    <<"M","i","s","s","i","n","g"," ","t","r","a","n","s","l","a","t","i","o","n"," ">> \o Dec(n)

\* the item the loop body appends for index i
\* the item as if the "Translation i not found" branch were missing, leaving
\* the index to the padding loop
ParsedItemLeftToPadding(lines, i) ==
    LET stripped == [k \in 1..Len(lines) |-> Strip(lines[k])]
        hits     == {k \in 1..Len(lines) : HasMarker(stripped[k], i)}
    IN  IF hits # {}
        THEN MarkedTranslation(stripped[CHOOSE k \in hits : \A m \in hits : k <= m])
        ELSE IF i <= Len(lines)
        THEN stripped[i]
        ELSE MissingText(i)

ParsedItem(lines, i) ==
    LET stripped == [k \in 1..Len(lines) |-> Strip(lines[k])]
        hits     == {k \in 1..Len(lines) : HasMarker(stripped[k], i)}
    IN  IF hits # {}
        THEN MarkedTranslation(stripped[CHOOSE k \in hits : \A m \in hits : k <= m])
        ELSE IF i <= Len(lines)
        THEN IF HasMarker(stripped[i], i)
             THEN MarkedTranslation(stripped[i])
             ELSE stripped[i]
        ELSE NotFoundText(i)

\* while len(translations) < expected_count: append "Missing translation n"
RECURSIVE PadMissing(_, _)
PadMissing(translations, expected_count) ==
    IF Len(translations) < expected_count
    THEN PadMissing(Append(translations, MissingText(Len(translations) + 1)),
                    expected_count)
    ELSE translations

parse_batch_response(response_text0, expected_count) ==
    LET response_text == Strip(response_text0)
        lines         == Split(response_text, NL)
        translations  == [i \in 1..expected_count |-> ParsedItem(lines, i)]
    IN  IF /\ expected_count = 1
           /\ \/ Len(lines) = 1
              \/ ~\E k \in 1..Len(lines) : HasMarker(Strip(lines[k]), 1)
        THEN <<response_text>>
        ELSE SubSeq(PadMissing(translations, expected_count), 1, expected_count)

\* ------------------------------------------------------------------------
\* The translation backend (chat.completions.create), an external service
\* ------------------------------------------------------------------------

Hi == <<"h", "i">>
Al == <<"A", "l">>
Bo == <<"B", "o">>
Cy == <<"C", "y">>

\* a translation the backend may give of one text; the two dialects differ on
\* the proper noun
Dialects == {1, 2}

Translate(text, d) ==
    IF text = Al THEN (IF d = 1 THEN Bo ELSE Cy) ELSE <<"o", "k">>

RECURSIVE Join(_, _)
Join(lines, sep) ==
    IF lines = <<>> THEN <<>>
    ELSE IF Len(lines) = 1 THEN lines[1]
    ELSE lines[1] \o sep \o Join(Tail(lines), sep)

\* the reply echoes the numbering of the request with separator sep
NumberedReply(texts, sep, d) ==
    Join([k \in 1..Len(texts) |-> Dec(k) \o sep \o Translate(texts[k], d)], <<NL>>)

\* the reply ignores the numbering
PlainReply(texts, d) ==
    Join([k \in 1..Len(texts) |-> Translate(texts[k], d)], <<NL>>)

\* the contents a successful batch request may return
BatchReplies(texts) ==
    {NumberedReply(texts, <<".", " ">>, 1) \o <<NL>>,
     NumberedReply(texts, <<")", " ">>, 2),
     PlainReply(texts, 1)}

\* the contents a successful single request may return
SingleReplies(text) ==
    {Translate(text, d) \o <<" ">> : d \in Dialects} \cup {<<>>, <<" ">>}

\* ------------------------------------------------------------------------
\* Prompt builder (prompts.py) and the two request paths (translator.py)
\* ------------------------------------------------------------------------

\* the numbered block of the batch user prompt
batch_content(texts) ==
    Join([k \in 1..Len(texts) |-> Dec(k) \o <<".", " ">> \o texts[k]], <<NL>>)

\* the part of the batch prompt that depends on the established terms: the
\* context-aware prompt lists every term, the plain batch prompt lists none
batch_prompt(terms) ==
    IF DOMAIN terms # {}
    THEN [kind |-> "context_aware", terms |-> terms]
    ELSE [kind |-> "batch", terms |-> EmptyDict]

\* _translate_single as if a failed request gave the empty string
translate_single_losing_text(text, ok, content) ==
    IF ok /\ Strip(content) # <<>> THEN Strip(content) ELSE <<>>

\* _translate_single: the reply stripped, or the text when the reply is empty
\* or the request raised
translate_single(text, ok, content) ==
    IF ok /\ Strip(content) # <<>> THEN Strip(content) ELSE text

\* _translate_batch on a request that returned content
translate_batch(texts, content) == parse_batch_response(Strip(content), Len(texts))

\* ------------------------------------------------------------------------
\* translate_with_openai: state
\* ------------------------------------------------------------------------

VARIABLES
    text_list,            \* argument: the items
    text_list_is_list,    \* argument: isinstance(text_list, list)
    target_language,      \* argument
    api_key,              \* argument
    model,                \* argument
    progress_callback,    \* argument: TRUE if a callback is given
    use_context,          \* argument: TRUE if context_manager is given
    context_manager,      \* the ContextManager object
    pc,                   \* position in translate_with_openai
    non_empty_texts,      \* local
    text_positions,       \* local (1-based)
    all_translations,     \* local
    established_terms,    \* local
    i,                    \* loop variable of the batch loop
    j,                    \* loop variable of the fallback loop
    result,               \* the returned list
    outcome,              \* "none", "returned", "ValueError" or "Exception"
    calls,                \* backend requests and pauses, in order
    progress_updates,     \* values passed to progress_callback, as <<num, den>>
    callback_raised,      \* some invocation of progress_callback raised
    single_failures,      \* single requests so far that gave no translation
    last_call,            \* last ContextManager method called directly
    file_content,         \* the subtitle file content given to the codec
    is_valid,             \* result of validate_srt_content(file_content)
    parsed_entries,       \* result of parse_srt_file(file_content)
    srt_output,           \* result of create_srt_output(parsed_entries)
    reparsed_entries,     \* result of parse_srt_file(srt_output)
    cost_estimates,       \* results of estimate_translation_cost, by target
    parse_call,           \* arguments of _parse_batch_response called directly
    parse_result,         \* its result
    terms_call,           \* arguments of the term extractor called directly
    terms_found,          \* result of extract_potential_terms
    terms_mapped          \* result of extract_terms_from_translation_pair

vars ==
    <<text_list, text_list_is_list, target_language, api_key, model,
      progress_callback, use_context, context_manager, pc, non_empty_texts,
      text_positions, all_translations, established_terms, i, j, result,
      outcome, calls, progress_updates, callback_raised, single_failures,
      last_call, file_content, is_valid, parsed_entries, srt_output,
      reparsed_entries, cost_estimates, parse_call, parse_result,
      terms_call, terms_found, terms_mapped>>

args ==
    <<text_list, text_list_is_list, target_language, api_key, model,
      progress_callback, use_context>>

\* the state of the subtitle codec, of the cost estimator and of the reply
\* parser and the term extractor called directly, which translate_with_openai
\* and the ContextManager's store never touch
codec == <<file_content, is_valid, parsed_entries, srt_output, reparsed_entries>>

NoParseCall == [response_text |-> <<>>, expected_count |-> 0]

NoTermsCall == [original_texts |-> <<>>, translated_texts |-> <<>>]

extractor == <<terms_call, terms_found, terms_mapped>>

ExtractorUnused ==
    /\ terms_call = NoTermsCall
    /\ terms_found = <<>>
    /\ terms_mapped = <<>>

aside == <<codec, cost_estimates, parse_call, parse_result, extractor>>

AsideUnused ==
    /\ file_content = <<>>
    /\ is_valid = FALSE
    /\ parsed_entries = <<>>
    /\ srt_output = <<>>
    /\ reparsed_entries = <<>>
    /\ cost_estimates = <<>>
    /\ parse_call = NoParseCall
    /\ parse_result = <<>>
    /\ ExtractorUnused

locals == <<non_empty_texts, text_positions, all_translations, established_terms, i, j>>

batch_size == 12

supported_models == {"gpt-5", "gpt-5-mini"}

\* ------------------------------------------------------------------------
\* Inputs
\* ------------------------------------------------------------------------

MaxSmallLen == 2
MaxSingleFailures == 1

RECURSIVE SeqsUpTo(_, _)
SeqsUpTo(S, n) ==
    IF n = 0 THEN {<<>>}
    ELSE LET shorter == SeqsUpTo(S, n - 1)
         IN  shorter \cup {Append(q, x) : q \in {r \in shorter : Len(r) = n - 1}, x \in S}

TextPool == {<<>>, <<" ">>, <<" ", "h", "i", " ">>, Al}

SmallLists == SeqsUpTo(TextPool, MaxSmallLen)

Filler == [k \in 1..(batch_size - 1) |-> Hi]

Heads == {<<<<>>, Al>>}
Tails == {<<>>, <<Al>>, <<<<" ">>, Al, <<" ", "h", "i", " ">>>>}

\* lists around the batch size: 12 to 14 non-blank texts, with blank items
LongLists == {h \o Filler \o t : h \in Heads, t \in Tails}

ProbeLists == {<<>>, <<Al>>}

Models == {"gpt-5", "gpt-5-mini", "gpt-4"}
Keys == {<<>>, <<" ">>, <<"s", "k">>}
Languages == {<<>>, <<" ">>, <<"z", "h">>}

\* a store the caller can hold: fresh, or with one term already established
EntryStores == {NewContextManager, update_terms(NewContextManager, (Al :> Bo))}

IsBlank(s) == Strip(s) = <<>>

ValidConfig ==
    /\ model \in supported_models
    /\ ~IsBlank(api_key)
    /\ ~IsBlank(target_language)
    /\ text_list_is_list

NoCall == [op |-> "none", arg |-> EmptyDict, min_confidence |-> 0, ret |-> EmptyDict]

Init ==
    /\ model \in Models
    /\ api_key \in Keys
    /\ target_language \in Languages
    /\ text_list_is_list \in BOOLEAN
    /\ text_list \in SmallLists \cup LongLists
    /\ ValidConfig \/ text_list \in ProbeLists
    /\ progress_callback \in BOOLEAN
    /\ use_context \in BOOLEAN
    /\ context_manager \in EntryStores
    /\ use_context \/ context_manager # NewContextManager
    /\ pc = "call"
    /\ non_empty_texts = <<>>
    /\ text_positions = <<>>
    /\ all_translations = <<>>
    /\ established_terms = EmptyDict
    /\ i = 0
    /\ j = 0
    /\ result = <<>>
    /\ outcome = "none"
    /\ calls = <<>>
    /\ progress_updates = <<>>
    /\ callback_raised = FALSE
    /\ single_failures = 0
    /\ last_call = NoCall
    /\ AsideUnused

\* ------------------------------------------------------------------------
\* translate_with_openai: steps
\* ------------------------------------------------------------------------

\* positions (1-based) of the items with text.strip() non-empty, from k on
RECURSIVE NonBlankPositions(_, _)
NonBlankPositions(list, k) ==
    IF k > Len(list) THEN <<>>
    ELSE (IF IsBlank(list[k]) THEN <<>> ELSE <<k>>) \o NonBlankPositions(list, k + 1)

\* the filter as if it tested "if text" only, keeping whitespace-only items
FilterTextsKeepingBlank(list) ==
    LET positions == SelectSeq([k \in 1..Len(list) |-> k],
                               LAMBDA k : list[k] # <<>>)
    IN  [texts     |-> [k \in 1..Len(positions) |-> Strip(list[positions[k]])],
         positions |-> positions]

FilterTexts(list) ==
    LET positions == NonBlankPositions(list, 1)
    IN  [texts     |-> [k \in 1..Len(positions) |-> Strip(list[positions[k]])],
         positions |-> positions]

\* the batch slice as if it were non_empty_texts[i:i + batch_size - 1]
batch_texts_one_short ==
    SubSeq(non_empty_texts, i + 1, Min(i + batch_size - 1, Len(non_empty_texts)))

\* non_empty_texts[i:i + batch_size]
batch_texts ==
    SubSeq(non_empty_texts, i + 1, Min(i + batch_size, Len(non_empty_texts)))

NoPrompt == [kind |-> "none", terms |-> EmptyDict]

BatchCall(ok, out) ==
    [kind |-> "batch", at |-> i, texts |-> batch_texts,
     prompt |-> batch_prompt(established_terms), ok |-> ok, out |-> out]

SingleCall(text, ok, out) ==
    [kind |-> "single", at |-> i + j, texts |-> <<text>>,
     prompt |-> NoPrompt, ok |-> ok, out |-> <<out>>]

SleepCall ==
    [kind |-> "sleep", at |-> i, texts |-> <<>>,
     prompt |-> NoPrompt, ok |-> TRUE, out |-> <<>>]

\* the progress value as if min(1.0, ...) were left out
ProgressUnclamped(completed) == <<completed, Len(non_empty_texts)>>

\* min(1.0, completed / len(non_empty_texts)) as <<numerator, denominator>>
Progress(completed) ==
    <<Min(completed, Len(non_empty_texts)), Len(non_empty_texts)>>

\* the next iteration of "for i in range(0, len(non_empty_texts), batch_size)"
NextBatch ==
    /\ i' = i + batch_size
    /\ j' = 0
    /\ pc' = IF i + batch_size < Len(non_empty_texts) THEN "batch" ELSE "rebuild"

Return(value) ==
    /\ pc' = "done"
    /\ outcome' = "returned"
    /\ result' = value

Raise(error) ==
    /\ pc' = "done"
    /\ outcome' = error
    /\ result' = <<>>

\* the entry checks as if the empty list were tested before the validation
ValidateAfterEmptyCheck ==
    IF text_list = <<>> THEN Return(<<>>)
    ELSE Raise("ValueError")

\* lines 36-52: validation, then the empty list
Validate ==
    IF ~ValidConfig THEN Raise("ValueError")
    ELSE Return(<<>>)

\* lines 36-79: entry up to the first batch
Call ==
    /\ pc = "call"
    /\ IF ~ValidConfig \/ text_list = <<>>
       THEN /\ Validate
            /\ UNCHANGED <<locals, context_manager>>
       ELSE LET f == FilterTexts(text_list)
            IN  /\ non_empty_texts' = f.texts
                /\ text_positions' = f.positions
                /\ all_translations' = <<>>
                /\ UNCHANGED <<i, j, context_manager>>
                /\ IF f.texts = <<>>
                   THEN /\ Return([k \in 1..Len(text_list) |-> <<>>])
                        /\ UNCHANGED established_terms
                   ELSE /\ established_terms' =
                               IF use_context
                               THEN get_established_terms(context_manager,
                                                          DefaultMinConfidence)
                               ELSE EmptyDict
                        /\ pc' = "batch"
                        /\ UNCHANGED <<result, outcome>>
    /\ UNCHANGED <<args, calls, progress_updates, callback_raised,
                   single_failures, last_call, aside>>

\* lines 89-95: fold the terms mined from the batch into the store and into
\* the local established_terms
\* the folding as if only the local established_terms were updated and the
\* call of context_manager.update_terms were missing
FoldTermsLocalOnly(batch_translations) ==
    IF use_context /\ batch_translations # <<>>
    THEN \E new_terms \in
              extract_terms_from_translation_pair(batch_texts, batch_translations) :
            IF DOMAIN new_terms # {}
            THEN /\ established_terms' = new_terms @@ established_terms
                 /\ UNCHANGED context_manager
            ELSE UNCHANGED <<context_manager, established_terms>>
    ELSE UNCHANGED <<context_manager, established_terms>>

FoldTerms(batch_translations) ==
    IF use_context /\ batch_translations # <<>>
    THEN \E new_terms \in
              extract_terms_from_translation_pair(batch_texts, batch_translations) :
            IF DOMAIN new_terms # {}
            THEN /\ context_manager' = update_terms(context_manager, new_terms)
                 /\ established_terms' = new_terms @@ established_terms
            ELSE UNCHANGED <<context_manager, established_terms>>
    ELSE UNCHANGED <<context_manager, established_terms>>

\* lines 86-95: the batch request returns content
BatchSucceeds ==
    /\ pc = "batch"
    /\ \E content \in BatchReplies(batch_texts) :
          LET batch_translations == translate_batch(batch_texts, content)
          IN  /\ all_translations' = all_translations \o batch_translations
              /\ FoldTerms(batch_translations)
              /\ calls' = Append(calls, BatchCall(TRUE, batch_translations))
    /\ pc' = "progress"
    /\ UNCHANGED <<args, non_empty_texts, text_positions, i, j, result, outcome,
                   progress_updates, callback_raised, single_failures, last_call, aside>>

\* the batch handler as if it started over with no established terms
BatchFailsForgettingTerms ==
    /\ pc = "batch"
    /\ calls' = Append(calls, BatchCall(FALSE, <<>>))
    /\ pc' = "fallback"
    /\ j' = 0
    /\ established_terms' = EmptyDict
    /\ UNCHANGED <<args, context_manager, non_empty_texts, text_positions,
                   all_translations, i, result, outcome,
                   progress_updates, callback_raised, single_failures, last_call, aside>>

\* lines 86, 106-108: the batch request raises (API error, or no content)
BatchFails ==
    /\ pc = "batch"
    /\ calls' = Append(calls, BatchCall(FALSE, <<>>))
    /\ pc' = "fallback"
    /\ j' = 0
    /\ UNCHANGED <<args, context_manager, non_empty_texts, text_positions,
                   all_translations, established_terms, i, result, outcome,
                   progress_updates, callback_raised, single_failures, last_call, aside>>

\* lines 97-104: progress after a successful batch, the callback returning
\* (or absent), then the pause
ProgressReturns ==
    /\ pc = "progress"
    /\ progress_updates' =
           IF progress_callback
           THEN Append(progress_updates, Progress(i + batch_size))
           ELSE progress_updates
    /\ calls' = IF i + batch_size < Len(non_empty_texts)
                THEN Append(calls, SleepCall)
                ELSE calls
    /\ NextBatch
    /\ UNCHANGED <<args, context_manager, non_empty_texts, text_positions,
                   all_translations, established_terms, result, outcome,
                   callback_raised, single_failures, last_call, aside>>

\* lines 98-100, 106-108: the callback raises after a successful batch; the
\* batch-level handler catches it
ProgressRaises ==
    /\ pc = "progress"
    /\ progress_callback
    /\ progress_updates' = Append(progress_updates, Progress(i + batch_size))
    /\ callback_raised' = TRUE
    /\ pc' = "fallback"
    /\ j' = 0
    /\ UNCHANGED <<args, context_manager, non_empty_texts, text_positions,
                   all_translations, established_terms, i, result, outcome,
                   calls, single_failures, last_call, aside>>

\* the fallback loop as if it stopped one item early
FallbackHasMoreOneShort == j + 2 < Len(batch_texts)

\* line 109: the fallback loop has items after item j
FallbackHasMore == j + 1 < Len(batch_texts)

\* lines 109-121: one item of the fallback loop
FallbackItem(ok, content, raises) ==
    LET text == batch_texts[j + 1]
        translated_text == translate_single(text, ok, content)
    IN  /\ all_translations' = Append(all_translations, translated_text)
        /\ calls' = Append(calls, SingleCall(text, ok, translated_text))
        /\ single_failures' =
               IF ~ok \/ Strip(content) = <<>>
               THEN single_failures + 1
               ELSE single_failures
        /\ progress_updates' =
               IF progress_callback
               THEN Append(progress_updates, Progress(i + j + 1))
               ELSE progress_updates
        /\ IF raises
           THEN /\ callback_raised' = TRUE
                /\ Raise("Exception")
                /\ UNCHANGED <<i, j>>
           ELSE /\ UNCHANGED <<callback_raised, result, outcome>>
                /\ IF FallbackHasMore
                   THEN /\ j' = j + 1
                        /\ UNCHANGED <<i, pc>>
                   ELSE NextBatch
        /\ UNCHANGED <<args, context_manager, non_empty_texts, text_positions,
                       established_terms, last_call, aside>>

Fallback ==
    /\ pc = "fallback"
    /\ \E raises \in {FALSE, progress_callback} :
          \/ \E content \in SingleReplies(batch_texts[j + 1]) :
                /\ Strip(content) = <<>> => single_failures < MaxSingleFailures
                /\ FallbackItem(TRUE, content, raises)
          \/ /\ single_failures < MaxSingleFailures
             /\ FallbackItem(FALSE, <<>>, raises)

\* the reconstruction as if translations were written back by their own index
ReconstructUnmapped(list, positions, translations) ==
    [p \in 1..Len(list) |->
        IF p <= Len(translations) THEN translations[p] ELSE <<>>]

\* lines 124-127: result[text_positions[k]] = translation, in order of k
Reconstruct(list, positions, translations) ==
    [p \in 1..Len(list) |->
        LET ks == {k \in 1..Len(translations) : positions[k] = p}
        IN  IF ks = {} THEN <<>>
            ELSE translations[CHOOSE k \in ks : \A m \in ks : m <= k]]

\* lines 123-129 and 137-138
Rebuild ==
    /\ pc = "rebuild"
    /\ IF Len(all_translations) > Len(text_positions)
       THEN Raise("Exception")
       ELSE Return(Reconstruct(text_list, text_positions, all_translations))
    /\ UNCHANGED <<args, context_manager, locals, calls, progress_updates,
                   callback_raised, single_failures, last_call, aside>>

Next ==
    \/ Call
    \/ BatchSucceeds
    \/ BatchFails
    \/ ProgressReturns
    \/ ProgressRaises
    \/ Fallback
    \/ Rebuild

Spec == Init /\ [][Next]_vars

\* ------------------------------------------------------------------------
\* The ContextManager used directly: update_terms, get_established_terms and
\* reset_context called in any order on one object
\* ------------------------------------------------------------------------

MaxUpdates == 3
MaxMinConfidence == 3

StoreTerms == {Al, <<"E", "d">>}
StoreTranslations == {Bo, Cy}

\* the dicts passed to update_terms
TermDicts == UNION {[D -> StoreTranslations] : D \in SUBSET StoreTerms}

InitStore ==
    /\ context_manager = NewContextManager
    /\ last_call = NoCall
    /\ pc = "idle"
    /\ text_list = <<>>
    /\ text_list_is_list = TRUE
    /\ target_language = <<>>
    /\ api_key = <<>>
    /\ model = "gpt-5-mini"
    /\ progress_callback = FALSE
    /\ use_context = FALSE
    /\ non_empty_texts = <<>>
    /\ text_positions = <<>>
    /\ all_translations = <<>>
    /\ established_terms = EmptyDict
    /\ i = 0
    /\ j = 0
    /\ result = <<>>
    /\ outcome = "none"
    /\ calls = <<>>
    /\ progress_updates = <<>>
    /\ callback_raised = FALSE
    /\ single_failures = 0
    /\ AsideUnused

engine == <<args, locals, pc, result, outcome, calls, progress_updates,
            callback_raised, single_failures>>

StoreUpdateTerms ==
    /\ Len(context_manager.batch_history) < MaxUpdates
    /\ \E new_terms \in TermDicts :
          /\ context_manager' = update_terms(context_manager, new_terms)
          /\ last_call' = [op |-> "update_terms", arg |-> new_terms,
                           min_confidence |-> 0, ret |-> EmptyDict]
    /\ UNCHANGED <<engine, aside>>

StoreGetEstablishedTerms ==
    /\ \E min_confidence \in 0..MaxMinConfidence :
          last_call' = [op |-> "get_established_terms", arg |-> EmptyDict,
                        min_confidence |-> min_confidence,
                        ret |-> get_established_terms(context_manager, min_confidence)]
    /\ UNCHANGED <<context_manager, engine, aside>>

StoreResetContext ==
    /\ context_manager' = reset_context(context_manager)
    /\ last_call' = [op |-> "reset_context", arg |-> EmptyDict,
                     min_confidence |-> 0, ret |-> EmptyDict]
    /\ UNCHANGED <<engine, aside>>

NextStore ==
    \/ StoreUpdateTerms
    \/ StoreGetEstablishedTerms
    \/ StoreResetContext

SpecStore == InitStore /\ [][NextStore]_vars

\* ------------------------------------------------------------------------
\* Properties of translate_with_openai
\* ------------------------------------------------------------------------

\* what the properties read off the arguments, independently of the locals
BlankAt(p) == Strip(text_list[p]) = <<>>

Rank(p) == Cardinality({q \in 1..p : ~BlankAt(q)})

NonBlankCount == Rank(Len(text_list))

PositionOf(k) == CHOOSE p \in 1..Len(text_list) : ~BlankAt(p) /\ Rank(p) = k

NonBlankText(k) == Strip(text_list[PositionOf(k)])

IsRequest(c) == c.kind # "sleep"

Requests == SelectSeq(calls, IsRequest)

\* the requests that produced a translation for the k-th non-blank text
ProducedBy(k) ==
    {q \in 1..Len(calls) :
        /\ calls[q].kind \in {"batch", "single"}
        /\ calls[q].at < k
        /\ k <= calls[q].at + Len(calls[q].out)}

Produced(k) ==
    LET q == CHOOSE q \in ProducedBy(k) : TRUE
    IN  calls[q].out[k - calls[q].at]

Finished == pc = "done" /\ ValidConfig

Returned == Finished /\ outcome = "returned"

AllBatchesSucceeded == \A q \in 1..Len(calls) : calls[q].kind = "batch" => calls[q].ok

SomeBatchFailed == \E q \in 1..Len(calls) : calls[q].kind = "batch" /\ ~calls[q].ok

BatchCalls == SelectSeq(calls, LAMBDA c : c.kind = "batch")

\* C5: whenever a batch request is about to be issued in a run with a context
\* store, the terms its prompt will carry are the store's established terms:
\* the same keys, each with the translation the store holds
C5_PromptTermsEqualStore ==
    (pc = "batch" /\ use_context) =>
        batch_prompt(established_terms).terms =
            get_established_terms(context_manager, DefaultMinConfidence)

\* C6: a term a batch prompt of the run carried with translation v is carried
\* with the same v by every later batch prompt of the run
C6_InjectedTermsStable ==
    use_context =>
        \A a \in 1..Len(BatchCalls) : \A b \in a..Len(BatchCalls) :
            \A original \in DOMAIN BatchCalls[a].prompt.terms :
                /\ original \in DOMAIN BatchCalls[b].prompt.terms
                /\ BatchCalls[b].prompt.terms[original] =
                       BatchCalls[a].prompt.terms[original]

\* C8: a run in which the progress callback raised still returns the full
\* result list; nothing the callback raised reaches the caller
C8_CallbackBestEffort ==
    (Finished /\ callback_raised) =>
        /\ outcome = "returned"
        /\ Len(result) = Len(text_list)

IsFraction(v) == v[2] > 0 /\ 0 <= v[1] /\ v[1] <= v[2]

\* C9: every value passed to the progress callback lies in [0, 1], and when a
\* run with a callback and at least one non-blank text returns, the last value
\* passed is 1
C9_ProgressRange ==
    /\ \A k \in 1..Len(progress_updates) : IsFraction(progress_updates[k])
    /\ (Returned /\ progress_callback /\ NonBlankCount >= 1) =>
          /\ progress_updates # <<>>
          /\ LET last == progress_updates[Len(progress_updates)]
             IN  last[1] = last[2]

\* C9 witness: a run of two batches, one failed and one successful, returned
\* and the callback saw values below 1 before the last one
C9_Witness ==
    /\ Returned
    /\ progress_callback
    /\ SomeBatchFailed
    /\ \E q \in 1..Len(calls) : calls[q].kind = "batch" /\ calls[q].ok
    /\ \E k \in 1..Len(progress_updates) : progress_updates[k][1] < progress_updates[k][2]

\* C10: a call with an unsupported model, a blank credential, a blank target
\* language or a text_list that is no list raises the configuration error and
\* issues no request, invokes no callback and leaves the context store as it
\* was, also when text_list is empty
C10_ValidationFirst ==
    [][(pc = "call" /\ ~ValidConfig) =>
          /\ pc' = "done"
          /\ outcome' = "ValueError"
          /\ calls' = <<>>
          /\ progress_updates' = <<>>
          /\ context_manager' = context_manager]_vars

\* C10 witness: an empty text_list with an unsupported model raised
C10_Witness ==
    /\ pc = "done"
    /\ outcome = "ValueError"
    /\ text_list = <<>>
    /\ model \notin supported_models
    /\ use_context
    /\ progress_callback

\* ------------------------------------------------------------------------
\* Properties of the ContextManager
\* ------------------------------------------------------------------------

\* C7: update_terms stores an unseen original with confidence 1, keeps the
\* stored translation of a seen original and raises its confidence by exactly
\* 1, and leaves the terms outside its argument as they were
C7_UpdateTerms ==
    [][last_call'.op = "update_terms" =>
          LET old       == context_manager
              new       == context_manager'
              new_terms == last_call'.arg
          IN  /\ DOMAIN new.established_terms =
                     DOMAIN old.established_terms \cup DOMAIN new_terms
              /\ DOMAIN new.term_confidence = DOMAIN new.established_terms
              /\ \A original \in DOMAIN new_terms :
                    IF original \in DOMAIN old.established_terms
                    THEN /\ new.established_terms[original] =
                                old.established_terms[original]
                         /\ new.term_confidence[original] =
                                old.term_confidence[original] + 1
                    ELSE /\ new.established_terms[original] = new_terms[original]
                         /\ new.term_confidence[original] = 1
              /\ \A original \in DOMAIN old.established_terms \ DOMAIN new_terms :
                    /\ new.established_terms[original] = old.established_terms[original]
                    /\ new.term_confidence[original] = old.term_confidence[original]]_vars

\* C7 witness: update_terms was called with another translation of a stored
\* term, which kept its translation and reached confidence 2 or more
C7_Witness ==
    /\ last_call.op = "update_terms"
    /\ \E original \in DOMAIN last_call.arg :
          /\ context_manager.established_terms[original] # last_call.arg[original]
          /\ context_manager.term_confidence[original] >= 2


\* C11: a valid request whose text_list is empty or holds only blank items
\* returns one "" per item ([] for the empty list) and never issues a backend
\* request, a pause or a progress update.
C11_EmptyInputShortCircuits ==
    (ValidConfig /\ NonBlankCount = 0) =>
        /\ calls = <<>>
        /\ progress_updates = <<>>
        /\ pc \in {"call", "done"}
        /\ pc = "done" =>
              /\ outcome = "returned"
              /\ Len(result) = Len(text_list)
              /\ \A p \in 1..Len(result) : result[p] = <<>>

C11_Witness ==
    /\ ValidConfig
    /\ pc = "done"
    /\ Len(text_list) = 2
    /\ text_list[1] = <<>>
    /\ text_list[2] = <<" ">>
    /\ result = << <<>>, <<>> >>
    /\ calls = <<>>

\* the batch request whose window the q-th call belongs to
BatchOf(q) ==
    LET before == {b \in 1..q : calls[b].kind = "batch"}
    IN  CHOOSE b \in before : \A c \in before : c <= b

\* C12: single-item requests are issued for a batch only if that batch's
\* batched request failed; a batch whose batched request succeeded is followed
\* by no single-item request.
C12_SinglesOnlyAfterFailedBatch ==
    \A q \in 1..Len(calls) :
        calls[q].kind = "single" => ~calls[BatchOf(q)].ok


\* ------------------------------------------------------------------------
\* Subtitle codec (srt_processor.py)
\* ------------------------------------------------------------------------

\* \d{2}:\d{2}:\d{2},\d{3} at position p of s
IsStampAt(s, p) ==
    /\ p >= 1
    /\ p + 11 <= Len(s)
    /\ \A k \in 0..11 :
          IF k \in {2, 5} THEN s[p + k] = ":"
          ELSE IF k = 8 THEN s[p + k] = ","
          ELSE s[p + k] \in Digit

\* the position after the longest run of whitespace that starts at p (\s*)
RECURSIVE SkipSpace(_, _)
SkipSpace(s, p) ==
    IF p <= Len(s) /\ s[p] \in Whitespace THEN SkipSpace(s, p + 1) ELSE p

NoRange == [matched |-> FALSE, start |-> <<>>, end |-> <<>>, last |-> 0]

\* the match of (stamp)\s*-->\s*(stamp) that begins at position p of s
RangeMatch(s, p) ==
    IF ~IsStampAt(s, p) THEN NoRange
    ELSE LET a == SkipSpace(s, p + 12)
         IN  IF ~(a + 2 <= Len(s) /\ SubSeq(s, a, a + 2) = <<"-", "-", ">">>)
             THEN NoRange
             ELSE LET b == SkipSpace(s, a + 3)
                  IN  IF ~IsStampAt(s, b) THEN NoRange
                      ELSE [matched |-> TRUE,
                            start   |-> SubSeq(s, p, p + 11),
                            end     |-> SubSeq(s, b, b + 11),
                            last    |-> b + 11]

\* the end of the match of \n\s*\n that begins at the newline at p, 0 if none
BlankGapEnd(s, p) ==
    LET newlines == {q \in (p + 1)..(SkipSpace(s, p + 1) - 1) : s[q] = NL}
    IN  IF s[p] # NL \/ newlines = {} THEN 0
        ELSE CHOOSE q \in newlines : \A r \in newlines : r <= q

\* re.split(r'\n\s*\n', s)
RECURSIVE SplitBlocks(_)
SplitBlocks(s) ==
    LET gaps == {p \in 1..Len(s) : BlankGapEnd(s, p) # 0}
    IN  IF gaps = {} THEN <<s>>
        ELSE LET p == CHOOSE q \in gaps : \A r \in gaps : q <= r
             IN  <<SubSeq(s, 1, p - 1)>>
                     \o SplitBlocks(SubSeq(s, BlankGapEnd(s, p) + 1, Len(s)))

\* int(line) does not raise ValueError: surrounding whitespace, an optional
\* sign, digits with single underscores between them
ParsesAsInt(line) ==
    LET t == Strip(line)
        u == IF t # <<>> /\ t[1] \in {"+", "-"} THEN Tail(t) ELSE t
    IN  /\ u # <<>>
        /\ \A k \in 1..Len(u) : u[k] \in Digit \cup {"_"}
        /\ u[1] \in Digit
        /\ u[Len(u)] \in Digit
        /\ \A k \in 1..(Len(u) - 1) : ~(u[k] = "_" /\ u[k + 1] = "_")

\* the body of the loop over blocks: the entries one block contributes
ParsedBlock(block) ==
    LET lines           == Split(Strip(block), NL)
        timestamp_match == RangeMatch(lines[2], 1)
        text            == Strip(Join(SubSeq(lines, 3, Len(lines)), <<" ">>))
    IN  IF Strip(block) = <<>> THEN <<>>
        ELSE IF Len(lines) < 3 THEN <<>>
        ELSE IF ~ParsesAsInt(lines[1]) THEN <<>>
        ELSE IF ~timestamp_match.matched THEN <<>>
        ELSE IF text = <<>> THEN <<>>
        ELSE << <<timestamp_match.start, timestamp_match.end, text>> >>

parse_srt_file(content) ==
    LET blocks == SplitBlocks(Strip(content))
    IN  Concat([k \in 1..Len(blocks) |-> ParsedBlock(blocks[k])])

Arrow == <<" ", "-", "-", ">", " ">>

\* f"{i}\n{start_time} --> {end_time}\n{text}\n"
SrtBlock(n, entry) ==
    Dec(n) \o <<NL>> \o entry[1] \o Arrow \o entry[2] \o <<NL>> \o entry[3] \o <<NL>>

\* the output as if the blocks were joined with nothing between them
create_srt_output_unseparated(translated_entries) ==
    Concat([n \in 1..Len(translated_entries) |-> SrtBlock(n, translated_entries[n])])

\* the output as if the blocks were numbered by enumerate(entries), from 0
create_srt_output_from_zero(translated_entries) ==
    Join([n \in 1..Len(translated_entries) |-> SrtBlock(n - 1, translated_entries[n])],
         <<NL>>)

create_srt_output(translated_entries) ==
    Join([n \in 1..Len(translated_entries) |-> SrtBlock(n, translated_entries[n])],
         <<NL>>)

\* re.search(timestamp_pattern, content)
SearchRange(content) == \E p \in 1..Len(content) : RangeMatch(content, p).matched

\* the validation as if it stopped after the pattern search
validate_srt_content_by_search(content) == SearchRange(content)

validate_srt_content(content) ==
    IF ~SearchRange(content) THEN FALSE
    ELSE Len(parse_srt_file(content)) > 0

\* ------------------------------------------------------------------------
\* The codec on one file: validate, parse, serialize, parse again
\* ------------------------------------------------------------------------

MaxBlocks == 2

Stamp(sec) == <<"0", "0", ":", "0", "0", ":", "0", DigitChars[sec + 1], ",", "0", "0", "0">>

GoodRange(a, b) == Stamp(a) \o Arrow \o Stamp(b)

\* blocks as sequences of lines: well-formed ones, and one for each way a
\* block can be malformed
SrtBlocks ==
    { << <<"1">>, GoodRange(1, 3), <<"H", "i">> >>,
      << <<"7">>, GoodRange(4, 6), <<"H", "i">>, <<"y", "o">> >>,
      << <<"x">>, GoodRange(1, 3), <<"H", "i">> >>,
      << <<"2">>, <<"0", "0", ":", "0", "4", " ", "-", "-", ">", " ", "0", "0", ":", "0", "6">>,
         <<"H", "i">> >>,
      << <<"3">>, GoodRange(7, 9) \o <<" ", "X">>, <<"H", "i">> >>,
      << <<"4">>, Stamp(7) \o <<"-", "-", ">">> \o Stamp(9), <<"y", "o">> >>,
      << <<"5">>, GoodRange(4, 6) >>,
      << <<"6">>, GoodRange(4, 6), <<" ">> >>,
      << <<"H", "i">> >> }

LineEnds == {<<NL>>, <<"\r", NL>>}

\* the file made of the blocks, with line ending eol, gap line endings
\* between blocks and possibly one after the last line
SrtContent(blocks, eol, gap, trailing) ==
    Join([k \in 1..Len(blocks) |-> Join(blocks[k], eol)],
         Concat([g \in 1..gap |-> eol]))
        \o (IF trailing THEN eol ELSE <<>>)

SrtContents ==
    {SrtContent(blocks, eol, gap, trailing) :
        blocks \in SeqsUpTo(SrtBlocks, MaxBlocks), eol \in LineEnds,
        gap \in {2, 3}, trailing \in BOOLEAN}

InitSrt ==
    /\ file_content \in SrtContents
    /\ is_valid = FALSE
    /\ parsed_entries = <<>>
    /\ srt_output = <<>>
    /\ reparsed_entries = <<>>
    /\ cost_estimates = <<>>
    /\ parse_call = NoParseCall
    /\ parse_result = <<>>
    /\ ExtractorUnused
    /\ pc = "content"
    /\ context_manager = NewContextManager
    /\ last_call = NoCall
    /\ text_list = <<>>
    /\ text_list_is_list = TRUE
    /\ target_language = <<>>
    /\ api_key = <<>>
    /\ model = "gpt-5-mini"
    /\ progress_callback = FALSE
    /\ use_context = FALSE
    /\ non_empty_texts = <<>>
    /\ text_positions = <<>>
    /\ all_translations = <<>>
    /\ established_terms = EmptyDict
    /\ i = 0
    /\ j = 0
    /\ result = <<>>
    /\ outcome = "none"
    /\ calls = <<>>
    /\ progress_updates = <<>>
    /\ callback_raised = FALSE
    /\ single_failures = 0

\* what the codec never touches
outside_codec ==
    <<args, locals, context_manager, last_call, result, outcome, calls,
      progress_updates, callback_raised, single_failures, cost_estimates,
      parse_call, parse_result, extractor>>

SrtValidate ==
    /\ pc = "content"
    /\ is_valid' = validate_srt_content(file_content)
    /\ pc' = "validated"
    /\ UNCHANGED <<file_content, parsed_entries, srt_output, reparsed_entries,
                   outside_codec>>

SrtParse ==
    /\ pc = "validated"
    /\ parsed_entries' = parse_srt_file(file_content)
    /\ pc' = "parsed"
    /\ UNCHANGED <<file_content, is_valid, srt_output, reparsed_entries,
                   outside_codec>>

SrtSerialize ==
    /\ pc = "parsed"
    /\ srt_output' = create_srt_output(parsed_entries)
    /\ pc' = "serialized"
    /\ UNCHANGED <<file_content, is_valid, parsed_entries, reparsed_entries,
                   outside_codec>>

SrtReparse ==
    /\ pc = "serialized"
    /\ reparsed_entries' = parse_srt_file(srt_output)
    /\ pc' = "reparsed"
    /\ UNCHANGED <<file_content, is_valid, parsed_entries, srt_output,
                   outside_codec>>

NextSrt ==
    \/ SrtValidate
    \/ SrtParse
    \/ SrtSerialize
    \/ SrtReparse

SpecSrt == InitSrt /\ [][NextSrt]_vars


\* ------------------------------------------------------------------------
\* Properties of the subtitle codec
\* ------------------------------------------------------------------------

Parsed == pc \in {"parsed", "serialized", "reparsed"}

Serialized == pc \in {"serialized", "reparsed"}

\* C13: parsing the serialization of the parsed entries gives the parsed
\* entries again: same count, same order, start, end and text all equal,
\* whatever the original numbers, line endings and multi-line texts.
C13_RoundTrip ==
    pc = "reparsed" =>
        /\ Len(reparsed_entries) = Len(parsed_entries)
        /\ \A k \in 1..Len(parsed_entries) :
              /\ reparsed_entries[k][1] = parsed_entries[k][1]
              /\ reparsed_entries[k][2] = parsed_entries[k][2]
              /\ reparsed_entries[k][3] = parsed_entries[k][3]

C13_Witness ==
    /\ pc = "reparsed"
    /\ "\r" \in Range(file_content)
    /\ StartsWith(file_content, <<"7">>)
    /\ Len(parsed_entries) = 2
    /\ parsed_entries[1] = <<Stamp(4), Stamp(6), <<"H", "i", "\r", " ", "y", "o">> >>
    /\ parsed_entries[2] = <<Stamp(1), Stamp(3), <<"H", "i">> >>
    /\ reparsed_entries = parsed_entries

\* the blocks of a file as the format describes them: the maximal runs of
\* lines that are not blank
RECURSIVE LineGroups(_)
LineGroups(lines) ==
    IF lines = <<>> THEN <<>>
    ELSE IF Strip(Head(lines)) = <<>> THEN LineGroups(Tail(lines))
    ELSE LET blanks == {k \in 1..Len(lines) : Strip(lines[k]) = <<>>}
             stop   == IF blanks = {} THEN Len(lines) + 1
                       ELSE CHOOSE k \in blanks : \A m \in blanks : k <= m
         IN  <<SubSeq(lines, 1, stop - 1)>>
                 \o LineGroups(SubSeq(lines, stop, Len(lines)))

\* the line is a timestamp range and nothing else (a line ending aside)
IsExactRange(line) ==
    LET t == RStrip(line)
    IN  RangeMatch(t, 1).matched /\ RangeMatch(t, 1).last = Len(t)

JoinedText(group) == Strip(Join(SubSeq(group, 3, Len(group)), <<" ">>))

IsValidBlock(group) ==
    /\ Len(group) >= 2
    /\ ParsesAsInt(group[1])
    /\ IsExactRange(group[2])
    /\ JoinedText(group) # <<>>

ValidBlockEntries(content) ==
    LET groups == LineGroups(Split(content, NL))
    IN  Concat([k \in 1..Len(groups) |->
                  IF IsValidBlock(groups[k])
                  THEN << <<RangeMatch(groups[k][2], 1).start,
                            RangeMatch(groups[k][2], 1).end,
                            JoinedText(groups[k])>> >>
                  ELSE <<>>])

\* C14: parse_srt_file returns, in block order, exactly the blocks whose
\* line 1 parses as an integer, whose line 2 is a timestamp range with nothing
\* else on the line, and whose remaining lines joined with single spaces and
\* trimmed are non-empty; every other block is skipped.
C14_ParseKeepsExactlyValidBlocks ==
    Parsed => parsed_entries = ValidBlockEntries(file_content)

ContainsRange(content) ==
    \E p \in 1..Len(content) :
        /\ IsStampAt(content, p)
        /\ \E a \in (p + 12)..Len(content) :
              /\ a + 2 <= Len(content)
              /\ SubSeq(content, a, a + 2) = <<"-", "-", ">">>
              /\ \A k \in (p + 12)..(a - 1) : content[k] \in Whitespace
              /\ \E b \in (a + 3)..Len(content) :
                    /\ IsStampAt(content, b)
                    /\ \A k \in (a + 3)..(b - 1) : content[k] \in Whitespace

\* C16: validate_srt_content returns true if and only if the content contains
\* a timestamp range and parse_srt_file yields at least one entry for it; it
\* returns false for the empty string.
C16_Validate ==
    Parsed =>
        /\ is_valid \in BOOLEAN
        /\ is_valid <=> (ContainsRange(file_content) /\ Len(parsed_entries) >= 1)
        /\ file_content = <<>> => ~is_valid

C16_Witness ==
    /\ Parsed
    /\ ContainsRange(file_content)
    /\ parsed_entries = <<>>
    /\ ~is_valid


\* ------------------------------------------------------------------------
\* Properties of the context store
\* ------------------------------------------------------------------------

\* the snapshots since creation or the last reset that name the term
UpdatesNaming(original) ==
    {k \in 1..Len(context_manager.batch_history) :
        original \in DOMAIN context_manager.batch_history[k]}

\* C17: get_established_terms(m) returns exactly the stored (original,
\* translation) pairs whose confidence is >= m and leaves the store as it
\* was; with the default m = 1 it returns every stored term, and for m = 2 a
\* term updated only once is not returned.
C17_GetEstablishedTerms ==
    [][last_call'.op = "get_established_terms" =>
          LET m   == last_call'.min_confidence
              ret == last_call'.ret
              cm  == context_manager
          IN  /\ context_manager' = cm
              /\ DOMAIN ret = {o \in DOMAIN cm.established_terms :
                                  cm.term_confidence[o] >= m}
              /\ \A o \in DOMAIN ret : ret[o] = cm.established_terms[o]
              /\ m = 1 => ret = cm.established_terms
              /\ m = 2 => \A o \in DOMAIN cm.established_terms :
                             Cardinality(UpdatesNaming(o)) = 1 => o \notin DOMAIN ret]_vars

C17_Witness ==
    /\ last_call.op = "get_established_terms"
    /\ last_call.min_confidence = 2
    /\ DOMAIN context_manager.established_terms = StoreTerms
    /\ DOMAIN last_call.ret = {Al}
    /\ Cardinality(UpdatesNaming(<<"E", "d">>)) = 1

\* C18: a call of update_terms with a non-empty mapping appends exactly one
\* snapshot, the mapping, to batch_history and a call with an empty mapping
\* leaves batch_history as it was; earlier snapshots stay as they were; so
\* batches_processed starts at 0, goes up by one with each non-empty
\* update_terms, returns to 0 with reset_context and changes in no other way.
C18_BatchHistory ==
    [][LET history == context_manager.batch_history
           before  == get_context_summary(context_manager).batches_processed
           after   == get_context_summary(context_manager').batches_processed
       IN  /\ last_call'.op = "update_terms" =>
                 IF last_call'.arg # EmptyDict
                 THEN /\ context_manager'.batch_history =
                             Append(history, last_call'.arg)
                      /\ after = before + 1
                 ELSE /\ context_manager'.batch_history = history
                      /\ after = before
           /\ last_call'.op = "get_established_terms" => after = before
           /\ last_call'.op = "reset_context" => after = 0
           /\ last_call.op = "none" => before = 0]_vars

C18_Witness ==
    /\ last_call.op = "update_terms"
    /\ last_call.arg = EmptyDict
    /\ get_context_summary(context_manager).batches_processed = 2
    /\ context_manager.batch_history[1] # context_manager.batch_history[2]


\* ------------------------------------------------------------------------
\* Cost estimator (translator.py)
\* ------------------------------------------------------------------------

UpperChars ==
    <<"A", "B", "C", "D", "E", "F", "G", "H", "I", "J", "K", "L", "M",
      "N", "O", "P", "Q", "R", "S", "T", "U", "V", "W", "X", "Y", "Z">>

LowerChars ==
    <<"a", "b", "c", "d", "e", "f", "g", "h", "i", "j", "k", "l", "m",
      "n", "o", "p", "q", "r", "s", "t", "u", "v", "w", "x", "y", "z">>

\* str.lower()
ToLower(s) ==
    [k \in 1..Len(s) |->
        IF s[k] \in Upper
        THEN LowerChars[CHOOSE n \in 1..26 : UpperChars[n] = s[k]]
        ELSE s[k]]

RECURSIVE Sum(_)
Sum(ns) == IF ns = <<>> THEN 0 ELSE Head(ns) + Sum(Tail(ns))

Max(a, b) == IF a >= b THEN a ELSE b

\* pricing_map: the price of 1000 input tokens plus 1000 output tokens, in
\* millionths of a dollar
PricePerThousand(m) == IF m = "gpt-5" THEN 1250 + 10000 ELSE 250 + 2000

MinimumCost == 1000

ZeroEstimate(m) ==
    [total_characters        |-> 0,
     estimated_input_tokens  |-> 0,
     estimated_output_tokens |-> 0,
     estimated_cost_nano_usd |-> 0,
     total_texts             |-> 0,
     model                   |-> m]

\* 4 if "english" in target_language.lower() else 3
char_per_token(language) ==
    IF Contains(ToLower(language), <<"e", "n", "g", "l", "i", "s", "h">>) THEN 4 ELSE 3

\* the cost is kept exact, in billionths of a dollar
estimate_translation_cost(texts, language, m) ==
    LET counted      == SelectSeq(texts, LAMBDA text : ~IsBlank(text))
        total_chars  == Sum([k \in 1..Len(counted) |-> Len(counted[k])])
        input_tokens == Max(1, total_chars \div char_per_token(language))
    IN  IF texts = <<>> \/ total_chars = 0 THEN ZeroEstimate(m)
        ELSE [total_characters        |-> total_chars,
              estimated_input_tokens  |-> input_tokens,
              estimated_output_tokens |-> input_tokens,
              estimated_cost_nano_usd |->
                  Max(input_tokens * PricePerThousand(m), MinimumCost),
              total_texts             |-> Len(counted),
              model                   |-> m]

MaxCostTexts == 2

Letters(n) == [k \in 1..n |-> "a"]

CostTexts == {<<>>, <<" ">>, <<" ", "a">>, Letters(1), Letters(3), Letters(5), Letters(8)}

English == <<"E", "n", "g", "l", "i", "s", "h">>

CostLanguages ==
    {English, <<"C", "h", "i", "n", "e", "s", "e">>, <<"F", "r", "e", "n", "c", "h">>}

InitCost ==
    /\ text_list \in SeqsUpTo(CostTexts, MaxCostTexts)
    /\ model \in Models
    /\ target_language = <<>>
    /\ cost_estimates = <<>>
    /\ parse_call = NoParseCall
    /\ parse_result = <<>>
    /\ ExtractorUnused
    /\ pc = "idle"
    /\ file_content = <<>>
    /\ is_valid = FALSE
    /\ parsed_entries = <<>>
    /\ srt_output = <<>>
    /\ reparsed_entries = <<>>
    /\ context_manager = NewContextManager
    /\ last_call = NoCall
    /\ text_list_is_list = TRUE
    /\ api_key = <<>>
    /\ progress_callback = FALSE
    /\ use_context = FALSE
    /\ non_empty_texts = <<>>
    /\ text_positions = <<>>
    /\ all_translations = <<>>
    /\ established_terms = EmptyDict
    /\ i = 0
    /\ j = 0
    /\ result = <<>>
    /\ outcome = "none"
    /\ calls = <<>>
    /\ progress_updates = <<>>
    /\ callback_raised = FALSE
    /\ single_failures = 0

\* estimate_translation_cost(text_list, language, model) for a target
\* language not estimated yet
EstimateCost ==
    /\ \E language \in CostLanguages \ DOMAIN cost_estimates :
          /\ target_language' = language
          /\ cost_estimates' =
                 (language :> estimate_translation_cost(text_list, language, model))
                     @@ cost_estimates
    /\ UNCHANGED <<text_list, text_list_is_list, api_key, model, progress_callback,
                   use_context, context_manager, pc, locals, result, outcome,
                   calls, progress_updates, callback_raised, single_failures,
                   last_call, codec, parse_call, parse_result, extractor>>

NextCost == EstimateCost

SpecCost == InitCost /\ [][NextCost]_vars

\* C19: for a text list with at least one non-blank item, the token estimate
\* for a non-English target language is strictly greater than the token
\* estimate for an English target.
C19_NonEnglishExceedsEnglish ==
    \A other \in DOMAIN cost_estimates \ {English} :
        (English \in DOMAIN cost_estimates /\ NonBlankCount >= 1) =>
            cost_estimates[other].estimated_input_tokens >
                cost_estimates[English].estimated_input_tokens


\* ------------------------------------------------------------------------
\* The reply parser called directly on one reply
\* ------------------------------------------------------------------------

MaxReplyLines == 2
MaxExpected == 2

\* reply lines: numbered with "." or ")", unnumbered, padded, empty, with
\* separators inside the translation, and numbered out of range
ReplyLines ==
    { <<"1", ".", " ">> \o Bo,
      <<"1", ")", " ">> \o Cy,
      Bo,
      <<"2", ".", " ", "o", "k">>,
      <<"2", ")", " ", "a", ".", "b">>,
      <<"1", ")", " ", "a", ".", "b">>,
      <<" ", "1", ".", " ">> \o Bo \o <<" ">>,
      <<>>,
      <<"1", ".">>,
      <<"3", ".", " ", "x">> }

Replies ==
    {Join(lines, <<NL>>) : lines \in SeqsUpTo(ReplyLines, MaxReplyLines)}

InitParser ==
    /\ parse_call \in [response_text : Replies, expected_count : 1..MaxExpected]
    /\ parse_result = <<>>
    /\ ExtractorUnused
    /\ pc = "reply"
    /\ file_content = <<>>
    /\ is_valid = FALSE
    /\ parsed_entries = <<>>
    /\ srt_output = <<>>
    /\ reparsed_entries = <<>>
    /\ cost_estimates = <<>>
    /\ context_manager = NewContextManager
    /\ last_call = NoCall
    /\ text_list = <<>>
    /\ text_list_is_list = TRUE
    /\ target_language = <<>>
    /\ api_key = <<>>
    /\ model = "gpt-5-mini"
    /\ progress_callback = FALSE
    /\ use_context = FALSE
    /\ non_empty_texts = <<>>
    /\ text_positions = <<>>
    /\ all_translations = <<>>
    /\ established_terms = EmptyDict
    /\ i = 0
    /\ j = 0
    /\ result = <<>>
    /\ outcome = "none"
    /\ calls = <<>>
    /\ progress_updates = <<>>
    /\ callback_raised = FALSE
    /\ single_failures = 0

ParseReply ==
    /\ pc = "reply"
    /\ parse_result' =
           parse_batch_response(parse_call.response_text, parse_call.expected_count)
    /\ pc' = "items"
    /\ UNCHANGED <<args, locals, context_manager, last_call, result, outcome,
                   calls, progress_updates, callback_raised, single_failures,
                   codec, cost_estimates, parse_call, extractor>>

NextParser == ParseReply

SpecParser == InitParser /\ [][NextParser]_vars

\* the reply lines, trimmed, that start with "n." or "n)"
MarkedLines(n) ==
    LET lines == Split(Strip(parse_call.response_text), NL)
    IN  SelectSeq([k \in 1..Len(lines) |-> Strip(lines[k])],
                  LAMBDA line : StartsWith(line, Dec(n) \o <<".">>)
                                \/ StartsWith(line, Dec(n) \o <<")">>))

\* the text of a marked line after the separator that follows the number
AfterMarker(line, n) == Strip(SubSeq(line, Len(Dec(n)) + 2, Len(line)))

\* C20: with expected_count = 1 the whole reply is returned verbatim if and
\* only if no reply line starts with "1." or "1)"; when a line does start
\* with such a marker, as in the one-line reply "1. T", the result is [T], the
\* text after the marker.
C20_SingleReply ==
    (pc = "items" /\ parse_call.expected_count = 1) =>
        /\ parse_result = <<Strip(parse_call.response_text)>> <=> MarkedLines(1) = <<>>
        /\ MarkedLines(1) # <<>> =>
              parse_result = <<AfterMarker(MarkedLines(1)[1], 1)>>


ReplyLineCount == Len(Split(Strip(parse_call.response_text), NL))

\* C21: with expected_count >= 2, for every index i that some reply line
\* starts with "i." or "i)" for, item i is the text of the first such line
\* after the separator that follows the number, trimmed, whatever "." or ")"
\* the translation itself contains.
C21_MarkedItems ==
    (pc = "items" /\ parse_call.expected_count >= 2) =>
        \A n \in 1..parse_call.expected_count :
            MarkedLines(n) # <<>> =>
                parse_result[n] = AfterMarker(MarkedLines(n)[1], n)

\* the line without a leading numbering prefix: digits followed by "." or ")"
RECURSIVE DigitsEnd(_, _)
DigitsEnd(line, p) ==
    IF p <= Len(line) /\ line[p] \in Digit THEN DigitsEnd(line, p + 1) ELSE p

WithoutNumbering(line) ==
    LET e == DigitsEnd(line, 1)
    IN  IF e > 1 /\ e <= Len(line) /\ line[e] \in {".", ")"}
        THEN Strip(SubSeq(line, e + 1, Len(line)))
        ELSE line

\* C22: for an index i that no reply line starts with "i." or "i)" for, in a
\* reply of at least i lines, item i is the i-th reply line, trimmed, with the
\* numbering prefix it may carry (a number followed by "." or ")") removed.
C22_UnmarkedItems ==
    (pc = "items" /\ parse_call.expected_count >= 2) =>
        \A n \in 1..parse_call.expected_count :
            (MarkedLines(n) = <<>> /\ n <= ReplyLineCount) =>
                parse_result[n] =
                    WithoutNumbering(
                        Strip(Split(Strip(parse_call.response_text), NL)[n]))

Placeholder(n) ==
    <<"T", "r", "a", "n", "s", "l", "a", "t", "i", "o", "n", " ">> \o Dec(n)
        \o <<" ", "n", "o", "t", " ", "f", "o", "u", "n", "d">>

\* C23: the parser returns exactly expected_count items for any reply, and an
\* index i beyond the reply's lines that no line carries the marker of yields
\* exactly "Translation i not found".
C23_Placeholders ==
    pc = "items" =>
        /\ Len(parse_result) = parse_call.expected_count
        /\ \A n \in 1..parse_call.expected_count :
              (MarkedLines(n) = <<>> /\ n > ReplyLineCount) =>
                  parse_result[n] = Placeholder(n)

C23_Witness ==
    /\ pc = "items"
    /\ parse_call.expected_count = 2
    /\ ReplyLineCount = 1
    /\ MarkedLines(1) # <<>>
    /\ MarkedLines(2) = <<>>
    /\ parse_result = <<Bo, Placeholder(2)>>


\* ------------------------------------------------------------------------
\* The term extractor called directly on one batch and its translations
\* ------------------------------------------------------------------------

MaxTermTexts == 2

USA == <<"U", "S", "A">>

\* originals: a name, an all-capitals word, a stoplist word, a name after a
\* stoplist word, a two-word candidate, and a text without capitals
TermOriginals ==
    { Al,
      USA,
      <<"T", "h", "e">>,
      <<"h", "i", " ">> \o USA,
      Al \o <<" ">> \o USA,
      Hi }

\* translations: one candidate, candidates of two kinds, none
TermTranslations ==
    { Bo,
      <<"U4E2D", "U6587", " ">> \o Bo,
      <<"U00E9", " ">> \o Cy,
      <<"o", "k">> }

InitTerms ==
    /\ \E n \in 0..MaxTermTexts :
          terms_call \in [original_texts   : [1..n -> TermOriginals],
                          translated_texts : [1..n -> TermTranslations]]
    /\ terms_found = <<>>
    /\ terms_mapped = <<>>
    /\ pc = "texts"
    /\ parse_call = NoParseCall
    /\ parse_result = <<>>
    /\ file_content = <<>>
    /\ is_valid = FALSE
    /\ parsed_entries = <<>>
    /\ srt_output = <<>>
    /\ reparsed_entries = <<>>
    /\ cost_estimates = <<>>
    /\ context_manager = NewContextManager
    /\ last_call = NoCall
    /\ text_list = <<>>
    /\ text_list_is_list = TRUE
    /\ target_language = <<>>
    /\ api_key = <<>>
    /\ model = "gpt-5-mini"
    /\ progress_callback = FALSE
    /\ use_context = FALSE
    /\ non_empty_texts = <<>>
    /\ text_positions = <<>>
    /\ all_translations = <<>>
    /\ established_terms = EmptyDict
    /\ i = 0
    /\ j = 0
    /\ result = <<>>
    /\ outcome = "none"
    /\ calls = <<>>
    /\ progress_updates = <<>>
    /\ callback_raised = FALSE
    /\ single_failures = 0

outside_extractor ==
    <<args, locals, context_manager, last_call, result, outcome, calls,
      progress_updates, callback_raised, single_failures, codec, cost_estimates,
      parse_call, parse_result>>

\* extract_potential_terms(original_texts)
ExtractTerms ==
    /\ pc = "texts"
    /\ terms_found' = extract_potential_terms(terms_call.original_texts)
    /\ pc' = "terms"
    /\ UNCHANGED <<terms_call, terms_mapped, outside_extractor>>

\* extract_terms_from_translation_pair(original_texts, translated_texts)
ExtractPair ==
    /\ pc = "terms"
    /\ terms_mapped' \in
           extract_terms_from_translation_pair(terms_call.original_texts,
                                               terms_call.translated_texts)
    /\ pc' = "mapped"
    /\ UNCHANGED <<terms_call, terms_found, outside_extractor>>

NextTerms ==
    \/ ExtractTerms
    \/ ExtractPair

SpecTerms == InitTerms /\ [][NextTerms]_vars


\* the candidates of a translated text in extraction order: runs of CJK or
\* Hangul characters, then runs of non-ASCII characters, then capitalized
\* words, each in text order
OrderedCandidates(translated_text) ==
    FindRuns(translated_text, 1, AsianChar)
        \o FindRuns(translated_text, 1, NonAscii)
        \o FindCap(translated_text, 1, FALSE)

ValidInOrder(translated_text) ==
    SelectSeq(OrderedCandidates(translated_text), is_valid_translation_candidate)

AlignedTranslation(term) ==
    terms_call.translated_texts[FirstContaining(terms_call.original_texts, term)]

\* C24: each potential term is mapped to the first candidate, in extraction
\* order, that passes validity, taken from the translation aligned with the
\* first original containing the term (and is left out if there is none).
C24_FirstCandidateInOrder ==
    pc = "mapped" =>
        /\ DOMAIN terms_mapped \subseteq Range(terms_found)
        /\ \A term \in Range(terms_found) :
              LET valid == ValidInOrder(AlignedTranslation(term))
              IN  IF valid = <<>> THEN term \notin DOMAIN terms_mapped
                  ELSE /\ term \in DOMAIN terms_mapped
                       /\ terms_mapped[term] = valid[1]

CapitalizedCandidates ==
    UNION {Range(FindCap(terms_call.original_texts[k], 1, TRUE)) :
               k \in 1..Len(terms_call.original_texts)}

TextsContaining(candidate) ==
    {k \in 1..Len(terms_call.original_texts) :
        Contains(terms_call.original_texts[k], candidate)}

\* C25: extract_potential_terms returns a sorted list without duplicates that
\* holds a capitalized-word candidate if and only if the candidate is not a
\* stoplist word and either occurs in more than one input string or passes
\* the likely-proper-noun heuristic, and holds nothing else.
C25_PotentialTerms ==
    pc \in {"terms", "mapped"} =>
        /\ \A k \in 1..(Len(terms_found) - 1) :
              StrLess(terms_found[k], terms_found[k + 1])
        /\ Range(terms_found) \subseteq CapitalizedCandidates
        /\ \A candidate \in CapitalizedCandidates :
              candidate \in Range(terms_found) <=>
                  /\ candidate \notin common_words
                  /\ \/ Cardinality(TextsContaining(candidate)) > 1
                     \/ is_likely_proper_noun(candidate)

C25_Witness ==
    /\ pc = "terms"
    /\ terms_call.original_texts = <<USA, Al \o <<" ">> \o USA>>
    /\ terms_found = <<Al \o <<" ">> \o USA, USA>>
    /\ ~is_likely_proper_noun(USA)


\* ------------------------------------------------------------------------
\* Properties of the order of the engine's steps
\* ------------------------------------------------------------------------

\* the position in calls of the k-th batch request
BatchIndex(k) ==
    CHOOSE q \in 1..Len(calls) :
        /\ calls[q].kind = "batch"
        /\ Cardinality({b \in 1..q : calls[b].kind = "batch"}) = k

\* the calls after the k-th batch request and before the next one
AfterBatch(k) ==
    SubSeq(calls, BatchIndex(k) + 1,
           IF k < Len(BatchCalls) THEN BatchIndex(k + 1) - 1 ELSE Len(calls))

SinglesAfter(k) == SelectSeq(AfterBatch(k), LAMBDA c : c.kind = "single")

\* the k-th batch is resolved: a reply was parsed into one translation per
\* item, or every item went through its single request, in item order
Resolved(k) ==
    LET c       == BatchCalls[k]
        singles == SinglesAfter(k)
    IN  /\ c.ok => Len(c.out) = Len(c.texts)
        /\ (~c.ok \/ singles # <<>>) =>
              /\ Len(singles) = Len(c.texts)
              /\ \A m \in 1..Len(singles) : singles[m].texts = <<c.texts[m]>>

\* the store holds a snapshot mined from the k-th batch, if mining it gives terms
StoreUpdatedFrom(k) ==
    LET c     == BatchCalls[k]
        mined == extract_terms_from_translation_pair(c.texts, c.out)
    IN  (c.ok /\ use_context /\ EmptyDict \notin mined) =>
            \E h \in 1..Len(context_manager.batch_history) :
                context_manager.batch_history[h] \in mined

\* C26: batches are requested in input order, and when the request for batch
\* k+1 is issued batch k is resolved: its translations, or all its single
\* fallback results, have been appended and, on success, the store holds the
\* terms mined from it.
C26_SequentialBatches ==
    LET n == Len(BatchCalls)
    IN  /\ \A k \in 1..n :
              /\ BatchCalls[k].at = batch_size * (k - 1)
              /\ BatchCalls[k].texts =
                     SubSeq(non_empty_texts, BatchCalls[k].at + 1,
                            Min(BatchCalls[k].at + batch_size, Len(non_empty_texts)))
              /\ (k < n \/ pc \in {"batch", "rebuild"}) => Resolved(k)
              /\ StoreUpdatedFrom(k)
        /\ all_translations = Concat([q \in 1..Len(Requests) |-> Requests[q].out])

C26_Witness ==
    /\ Len(BatchCalls) = 2
    /\ BatchCalls[1].ok
    /\ use_context
    /\ Len(context_manager.batch_history) >= 2
    /\ ~BatchCalls[2].ok
    /\ pc = "rebuild"

\* C27: between two consecutive batch requests there is a pause, whether the
\* earlier batch succeeded or went through the fallback, and no pause follows
\* the last batch.
C27_PauseBetweenBatches ==
    \A k \in 1..Len(BatchCalls) :
        IF k < Len(BatchCalls)
        THEN \E q \in 1..Len(AfterBatch(k)) : AfterBatch(k)[q].kind = "sleep"
        ELSE pc = "done" =>
                 \A q \in 1..Len(AfterBatch(k)) : AfterBatch(k)[q].kind # "sleep"

\* C28: after each batch has been processed, whatever the backend, the
\* callback and the term mining did, there are as many accumulated
\* translations as non-blank items in the batches processed so far, so no
\* item has two.
C28_OneTranslationPerItem ==
    /\ pc = "batch" => Len(all_translations) = i
    /\ pc = "rebuild" => Len(all_translations) = Len(non_empty_texts)

\* the last batch request so far failed
LastBatchFailed(log) ==
    /\ BatchCalls # <<>> \/ log # calls
    /\ LET batches == SelectSeq(log, LAMBDA c : c.kind = "batch")
       IN  batches # <<>> /\ ~batches[Len(batches)].ok

\* C30: from the failure of a batch request to the end of its fallback the
\* context store stays as it was before the batch, and the prompt of the next
\* batch carries the terms the failed batch's prompt carried.
C30_FailedBatchLeavesContext ==
    [][/\ (LastBatchFailed(calls') /\ pc' \in {"fallback", "batch", "rebuild"}
              /\ (pc = "fallback" \/ calls' # calls)
              /\ (calls' = calls \/ calls'[Len(calls')].kind # "batch"
                      \/ ~calls'[Len(calls')].ok))
           => context_manager' = context_manager
       /\ LET batches == SelectSeq(calls', LAMBDA c : c.kind = "batch")
          IN  \A k \in 1..(Len(batches) - 1) :
                 ~batches[k].ok => batches[k + 1].prompt = batches[k].prompt]_vars

C30_Witness ==
    /\ Len(BatchCalls) = 2
    /\ ~BatchCalls[1].ok
    /\ use_context
    /\ BatchCalls[1].prompt.terms = (Al :> Bo)
    /\ BatchCalls[2].prompt.terms = (Al :> Bo)
    /\ context_manager.established_terms = (Al :> Bo)


\* the snapshots of batch_history naming a term, earliest first
EarliestNaming(original) ==
    CHOOSE k \in UpdatesNaming(original) : \A h \in UpdatesNaming(original) : k <= h

\* C29: after any sequence of update_terms and reset_context calls,
\* established_terms and term_confidence have the same keys, every confidence
\* is >= 1 and is the number of batch_history snapshots naming the term, the
\* stored translation is the term's value in the earliest such snapshot, and
\* right after reset_context the three stores are empty.
C29_StoreConsistent ==
    LET cm == context_manager
    IN  /\ DOMAIN cm.established_terms = DOMAIN cm.term_confidence
        /\ \A original \in DOMAIN cm.established_terms :
              /\ cm.term_confidence[original] >= 1
              /\ cm.term_confidence[original] = Cardinality(UpdatesNaming(original))
              /\ cm.established_terms[original] =
                     cm.batch_history[EarliestNaming(original)][original]
        /\ \A k \in 1..Len(cm.batch_history) :
              DOMAIN cm.batch_history[k] \subseteq DOMAIN cm.established_terms
        /\ last_call.op = "reset_context" =>
              /\ cm.established_terms = EmptyDict
              /\ cm.term_confidence = EmptyDict
              /\ cm.batch_history = <<>>

C29_Witness ==
    LET cm == context_manager
    IN  /\ Len(cm.batch_history) = 2
        /\ Al \in DOMAIN cm.established_terms
        /\ cm.term_confidence[Al] = 2
        /\ cm.batch_history[1][Al] # cm.batch_history[2][Al]
        /\ cm.established_terms[Al] = cm.batch_history[1][Al]
        /\ \E original \in DOMAIN cm.established_terms :
              cm.term_confidence[original] = 1

====
